---- MODULE Spec2Model ----
(***************************************************************************)
(* Model of the FOS survey agent's conversation state machine              *)
(* (backend/app/agent/survey_agent.py) and of the session record it        *)
(* mutates (backend/app/agent/session.py), with the response store         *)
(* (backend/app/database.py) as the collaborator that can fail.            *)
(*                                                                         *)
(* One SurveyAgent object drives one SurveySession.  The agent's `phase`   *)
(* is a field of the agent; `state`, `current_question_index`,             *)
(* `responses`, `retry_count` and `completed_at` are fields of the         *)
(* session.  Every public method of the agent is one action; the caller    *)
(* may invoke them in any order, as the code allows.                       *)
(*                                                                         *)
(* The alternate state machine of agent/survey_brain.py (SurveyBrain) is   *)
(* modelled beside it.                                                     *)
(*                                                                         *)
(* Seven specifications share the variables:                               *)
(*   Spec       one agent and its session, one call at a time;             *)
(*   StoreSpec  the session manager, create_for_survey and the routes,     *)
(*              one request at a time;                                     *)
(*   ConcSpec   the session manager called from several threads;           *)
(*   TurnSpec   process_response of one agent called from several threads; *)
(*   AdvanceSpec  one agent started and then given utterances until its    *)
(*              session ends;                                              *)
(*   BrainSpec  one SurveyBrain, one process_input at a time;              *)
(*   PeersSpec  several agents, each over its own session, one call at a   *)
(*              time.                                                      *)
(* Each one holds the variables of the others at their initial values.     *)
(***************************************************************************)
EXTENDS Integers, Sequences, FiniteSets, TLC

----------------------------------------------------------------------------
(* Bounds of the model *)

\* longest question list of a survey
MaxQuestions == 2

\* longest word (in letters) of a transcription handed to process_response
MaxLen == 1

\* retry_count is an unbounded Python int: empty turns are explored up to here
RetryCap == 4

\* number of distinct values the 8 characters of a session id can take
MaxSessions == 2

\* the clock (datetime.now(), in hours) runs from 0 to here
MaxClock == 1

\* calls made on the agents that share a store: explored up to here
MaxPeerCalls == 6

\* number of threads that serve requests at the same time
MaxWorkers == 2

----------------------------------------------------------------------------
(* Program constants *)

\* SurveySession.max_retries (dataclass default, never overridden)
max_retries == 3

\* ConversationPhase members
ConversationPhase ==
    {"GREETING", "WAIT_IDENTITY", "CONFIRMED", "INTRO", "ASK_QUESTION",
     "WAIT_ANSWER", "ACKNOWLEDGE", "CLOSING", "DONE"}

\* SessionState members
SessionState == {"CREATED", "IN_PROGRESS", "COMPLETED", "ABANDONED", "ERROR"}

----------------------------------------------------------------------------
(* Text: a transcription is a sequence of characters; " " is whitespace.   *)
(* The transcriptions tried are the words of up to MaxLen letters, bare or  *)
(* with whitespace before and after, and the whitespace-only texts.         *)

RECURSIVE WordOfLen(_)
WordOfLen(n) == IF n = 0 THEN <<>> ELSE Append(WordOfLen(n - 1), "a")

Words == {WordOfLen(n) : n \in 0..MaxLen}

Padding == {<<>>, <<" ">>}

Transcriptions == {pre \o w \o post : pre \in Padding, w \in Words, post \in Padding}

\* None, the absent transcription (what STTService.transcribe returns on
\* failure): a value that is no text
None == <<"None">>

\* what a caller can pass to process_response
Inputs == Transcriptions \cup {None}

RECURSIVE lstrip(_)
lstrip(t) == IF t # <<>> /\ Head(t) = " " THEN lstrip(Tail(t)) ELSE t

RECURSIVE rstrip(_)
rstrip(t) ==
    IF t # <<>> /\ t[Len(t)] = " " THEN rstrip(SubSeq(t, 1, Len(t) - 1)) ELSE t

\* str.strip()
strip(t) == rstrip(lstrip(t))

----------------------------------------------------------------------------
(* Questions and the survey of a session *)

\* database id of the question at position i (ids are primary keys: distinct,
\* and different from the positions)
QuestionId(i) == 100 + i

\* Question rows of the dataclass fields the agent reads
QuestionAt(i, req, ur) ==
    [id |-> QuestionId(i), required |-> req,
     text |-> "text", text_ur |-> IF ur THEN "text_ur" ELSE ""]

\* the surveys: any number of questions from 1 (create_for_survey refuses an
\* empty list), each required or optional, with or without Urdu texts
QuestionLists ==
    UNION {
      { [i \in 1..n |-> QuestionAt(i, req[i], ur)] :
            req \in [1..n -> BOOLEAN], ur \in BOOLEAN }
      : n \in 1..MaxQuestions }

employee_name == "name"

----------------------------------------------------------------------------
(* prompts.py: an utterance is a sequence of parts joined by blank lines;   *)
(* a part is a template with the values substituted into it                 *)

Part(k, n, t) == [k |-> k, n |-> n, t |-> t]

REPEAT_REQUEST == <<Part("REPEAT_REQUEST", 0, "")>>
CALL_LATER == <<Part("CALL_LATER", 0, "")>>
TECHNICAL_ERROR == <<Part("TECHNICAL_ERROR", 0, "")>>
CLOSING == <<Part("CLOSING", 0, "")>>
SURVEY_INTRO == <<Part("SURVEY_INTRO", 0, "")>>
ACKNOWLEDGE_NEXT == <<Part("ACKNOWLEDGE_NEXT", 0, "")>>
SKIPPING == <<Part("SKIPPING", 0, "")>>
EmptyUtterance == <<>>

format_greeting(name) == <<Part("GREETING", 0, name)>>
format_identity_confirmed(name) == <<Part("IDENTITY_CONFIRMED", 0, name)>>
format_question(question_number, question_text) ==
    <<Part("ASK_QUESTION", question_number, question_text)>>

\* `question.text_ur or question.text`
TextOf(q) == IF q.text_ur # "" THEN q.text_ur ELSE q.text

----------------------------------------------------------------------------
(* State *)

VARIABLES
    questions,   \* session.questions: the survey's question rows, fixed
    phase,       \* agent.phase (ConversationPhase)
    session,     \* the mutable fields of the SurveySession
    db,          \* the rows of the database the agent writes
    lastOp,      \* the method called last ("none" before the first call)
    lastInput,   \* the transcription passed to the last process_response
    ret,         \* what the last call returned, or that it raised
    pureRun,     \* history: non-empty turns since a start on a fresh session
    emptyRun,    \* history: empty turns in a row since WAIT_ANSWER at retry 0
    runAnswers,  \* history: session.responses when the empty run began
    sessions,    \* SessionManager._sessions: session id -> SurveySession
    dbSessions,  \* the ids of the rows of the database's sessions table
    now,         \* datetime.now(), in hours
    storeRet,    \* the last request to the store and what it returned
    wk,          \* per thread: the call it is in, its position and locals
    gone,        \* history: the ids whose removal or eviction was carried out
    manager,     \* the global _session_manager: the manager's id, or none
    stale,       \* per manager that is not the global one: its _sessions
    advCalls,    \* history: process_response calls since the start (-1: none)
    brain,       \* SurveyBrain.state (SurveyState)
    brainOp,     \* the method of the SurveyBrain called last
    brainIn,     \* the user_text passed to the last process_input
    brainRet,    \* what the last process_input returned, or that it raised
    peers,       \* session id -> the agent made for the session, its fields
    dicts,       \* the dict objects of the sessions: reference -> contents
    called,      \* the id of the session whose agent was called last
    peerCalls    \* history: the calls made on the agents

\* the fields of one agent and its session
agentVars ==
    <<questions, phase, session, db, lastOp, lastInput, ret,
      pureRun, emptyRun, runAnswers>>

\* the session manager, the sessions table and the clock
storeVars == <<sessions, dbSessions, now, storeRet>>

\* the threads that run calls side by side
concVars == <<wk, gone, manager, stale>>

\* the count of the calls of one conversation
runVars == <<advCalls>>

\* the alternate state machine
brainVars == <<brain, brainOp, brainIn, brainRet>>

\* several agents, each over its own session
peerVars == <<peers, dicts, called, peerCalls>>

vars == <<agentVars, storeVars, concVars, runVars, brainVars, peerVars>>

\* the empty dict
EmptyDict == [k \in {} |-> <<>>]

\* SurveySession(...) as SessionManager.create_session builds it
NewSession ==
    [state |-> "CREATED",
     current_question_index |-> 0,
     responses |-> EmptyDict,
     retry_count |-> 0,
     completed_at |-> FALSE]

\* the database after create_for_survey: the sessions row is inserted with
\* the column default 'in_progress', no response row yet
NewDb == [responses |-> <<>>, session_status |-> "in_progress"]

\* a returned value; `success` is the first member of process_response's
\* tuple and is FALSE for the methods that return the utterance alone
Return(success, utterance) ==
    [raised |-> FALSE, success |-> success, utterance |-> utterance]

\* an exception that leaves the method
Raise == [raised |-> TRUE, success |-> FALSE, utterance |-> EmptyUtterance]

\* SurveyState(): the state of a SurveyBrain before initialize
NewSurveyState ==
    [phase |-> "GREETING", questions |-> <<>>, current_index |-> 0,
     responses |-> EmptyDict, identity_confirmed |-> FALSE]

\* what process_input returned: a text (an utterance), None or an exception
BrainReturn(value) == [raised |-> FALSE, none |-> FALSE, value |-> value]
BrainReturnNone == [raised |-> FALSE, none |-> TRUE, value |-> <<>>]
BrainRaise == [raised |-> TRUE, none |-> FALSE, value |-> <<>>]

\* no SurveyBrain is in use and no conversation is counted
NoBrain ==
    /\ advCalls = -1
    /\ brain = NewSurveyState
    /\ brainOp = "none"
    /\ brainIn = <<>>
    /\ brainRet = BrainReturnNone

\* no session id / no agent (None)
NoSession == 0

\* no agent has been made beside the one of `session`
NoPeers ==
    /\ peers = EmptyDict
    /\ dicts = EmptyDict
    /\ called = NoSession
    /\ peerCalls = 0

\* what a request reports: the operation and its HTTP status (200; 400 for
\* a refused creation; 404; 500 for an exception); for a start, the id of the
\* session it made, the phase of the new agent when it ended, and what the
\* lookups found; for a respond on a stored session, the text it carried
\* and the phase of the agent that processed it; for a cleanup,
\* max_age_hours and the ids it removed
Reply(op, status) ==
    [op |-> op, status |-> status, session_id |-> NoSession,
     phase |-> "GREETING", survey_ok |-> TRUE, employee_ok |-> TRUE,
     nq |-> 1, text |-> <<>>, max_age_hours |-> 0, removed |-> {}]

NoRequest == Reply("none", 200)

\* the threads
Workers == 1..MaxWorkers

\* `_session_manager is None`; a manager is named after the thread that
\* constructed it
NoManager == 0

\* a thread that is in no call; err is how its last call ended ("none", or
\* the exception that left it); op is the call it is in and mgr the manager
\* that get_session_manager() returned to it
Idle(err) ==
    [pc |-> "idle", op |-> "none", mgr |-> NoManager,
     session_id |-> NoSession, keys |-> {}, visited |-> {},
     to_remove |-> {}, max_age_hours |-> 0, t |-> 0, err |-> err]

\* no thread is in a call; the process holds the one manager whose mapping
\* is `sessions`
NoThreads ==
    /\ wk = [w \in Workers |-> Idle("none")]
    /\ gone = {}
    /\ manager = NoManager
    /\ stale = [w \in Workers |-> EmptyDict]

----------------------------------------------------------------------------
(* SurveySession *)

\* current_question is not None
HasCurrentQuestion(s) ==
    0 <= s.current_question_index /\ s.current_question_index < Len(questions)

\* current_question, where it is not None (Python indexes from 0)
current_question(s) == questions[s.current_question_index + 1]

is_complete(s) ==
    s.current_question_index >= Len(questions) \/ s.state = "COMPLETED"

\* record_response losing the assignment to the dict
record_response_not_stored(s, question_id, answer) ==
    [s EXCEPT !.retry_count = 0]

record_response(s, question_id, answer) ==
    [s EXCEPT !.responses = (question_id :> answer) @@ s.responses,
              !.retry_count = 0]

\* advance_to_next_question stepping over a question
advance_to_next_question_by_two(s) ==
    [s EXCEPT !.current_question_index = s.current_question_index + 2,
              !.state = "IN_PROGRESS"]

\* advance_to_next_question leaving the index where it is
advance_to_next_question_stays(s) == [s EXCEPT !.state = "IN_PROGRESS"]

advance_to_next_question(s) ==
    [s EXCEPT !.current_question_index = s.current_question_index + 1,
              !.state = "IN_PROGRESS"]

\* increment_retry comparing with >= : abandons one empty turn early
increment_retry_at_max(s) ==
    LET n == s.retry_count + 1 IN
    IF n >= max_retries
    THEN [session |-> [s EXCEPT !.retry_count = n, !.state = "ABANDONED"],
          result |-> FALSE]
    ELSE [session |-> [s EXCEPT !.retry_count = n], result |-> TRUE]

\* increment_retry comparing with max_retries + 1: abandons one turn late
increment_retry_late(s) ==
    LET n == s.retry_count + 1 IN
    IF n > max_retries + 1
    THEN [session |-> [s EXCEPT !.retry_count = n, !.state = "ABANDONED"],
          result |-> FALSE]
    ELSE [session |-> [s EXCEPT !.retry_count = n], result |-> TRUE]

\* the session after increment_retry, and the boolean it returns
increment_retry(s) ==
    LET n == s.retry_count + 1 IN
    IF n > max_retries
    THEN [session |-> [s EXCEPT !.retry_count = n, !.state = "ABANDONED"],
          result |-> FALSE]
    ELSE [session |-> [s EXCEPT !.retry_count = n], result |-> TRUE]

complete(s) == [s EXCEPT !.state = "COMPLETED", !.completed_at = TRUE]

abandon(s) == [s EXCEPT !.state = "ABANDONED"]

----------------------------------------------------------------------------
(* Database *)

\* INSERT INTO responses
save_response(d, question_id, answer_text) ==
    [d EXCEPT !.responses =
        Append(d.responses,
               [question_id |-> question_id, answer_text |-> answer_text])]

\* UPDATE sessions SET status = 'completed'
complete_session(d) == [d EXCEPT !.session_status = "completed"]

----------------------------------------------------------------------------
(* SurveyAgent *)

Outcome(ph, s, d, r) == [phase |-> ph, session |-> s, db |-> d, ret |-> r]

\* _save_response keying the answer by the question's position
_save_response_by_position(s, d, question, answer, db_ok) ==
    LET s1 == record_response(s, s.current_question_index, answer) IN
    IF db_ok
    THEN [session |-> s1, db |-> save_response(d, question.id, answer),
          raised |-> FALSE]
    ELSE [session |-> s1, db |-> d, raised |-> TRUE]

\* _save_response: the session records the answer, then the database
\* inserts the row; an insert that fails raises after the session changed
_save_response(s, d, question, answer, db_ok) ==
    LET s1 == record_response(s, question.id, answer) IN
    IF db_ok
    THEN [session |-> s1, db |-> save_response(d, question.id, answer),
          raised |-> FALSE]
    ELSE [session |-> s1, db |-> d, raised |-> TRUE]

get_next_utterance(ph, s, d, db_ok) ==
    CASE ph = "GREETING" ->
           Outcome("WAIT_IDENTITY", s, d,
                   Return(FALSE, format_greeting(employee_name)))
      [] ph = "CONFIRMED" ->
           Outcome("INTRO", s, d,
                   Return(FALSE, format_identity_confirmed(employee_name)))
      [] ph = "INTRO" ->
           Outcome("ASK_QUESTION", s, d, Return(FALSE, SURVEY_INTRO))
      [] ph = "ASK_QUESTION" ->
           IF HasCurrentQuestion(s)
           THEN Outcome("WAIT_ANSWER", s, d,
                        Return(FALSE,
                               format_question(s.current_question_index + 1,
                                               TextOf(current_question(s)))))
           ELSE Outcome("CLOSING", s, d, Return(FALSE, CLOSING))
      [] ph = "ACKNOWLEDGE" ->
           IF s.current_question_index >= Len(questions)
           THEN Outcome("CLOSING", s, d, Return(FALSE, CLOSING))
           ELSE Outcome("ASK_QUESTION", s, d,
                        Return(FALSE,
                               ACKNOWLEDGE_NEXT \o
                               format_question(s.current_question_index + 1,
                                               TextOf(current_question(s)))))
      [] ph = "CLOSING" ->
           IF db_ok
           THEN Outcome("DONE", complete(s), complete_session(d),
                        Return(FALSE, CLOSING))
           ELSE Outcome("CLOSING", complete(s), d, Raise)
      [] OTHER -> Outcome(ph, s, d, Return(FALSE, EmptyUtterance))

\* process_response, empty input: `if not clean_text`
process_empty(ph, s, d) ==
    LET r == increment_retry(s) IN
    Outcome(ph, r.session, d,
            Return(FALSE, IF r.result THEN REPEAT_REQUEST ELSE CALL_LATER))

\* process_identity without the second assignment to phase
process_identity_stays_confirmed(ph, s, d) ==
    Outcome("CONFIRMED", s, d,
            Return(TRUE,
                   format_identity_confirmed(employee_name) \o
                   SURVEY_INTRO \o
                   format_question(1, TextOf(current_question(s)))))

\* process_response, phase WAIT_IDENTITY: any text confirms the identity
process_identity(ph, s, d) ==
    IF HasCurrentQuestion(s)
    THEN Outcome("WAIT_ANSWER", s, d,
                 Return(TRUE,
                        format_identity_confirmed(employee_name) \o
                        SURVEY_INTRO \o
                        format_question(1, TextOf(current_question(s)))))
    \* `question.text_ur` on None raises after phase = CONFIRMED
    ELSE Outcome("CONFIRMED", s, d, Raise)

\* process_response, phase WAIT_ANSWER
process_answer(ph, s, d, clean_text, db_ok) ==
    IF HasCurrentQuestion(s)
    THEN LET saved == _save_response(s, d, current_question(s),
                                     clean_text, db_ok) IN
         IF saved.raised
         THEN Outcome(ph, saved.session, saved.db, Raise)
         ELSE LET s2 == advance_to_next_question(saved.session) IN
              IF s2.current_question_index >= Len(questions)
              THEN Outcome(ph, s2, saved.db, Return(TRUE, CLOSING))
              ELSE Outcome("WAIT_ANSWER", s2, saved.db,
                           Return(TRUE,
                                  ACKNOWLEDGE_NEXT \o
                                  format_question(
                                      s2.current_question_index + 1,
                                      TextOf(current_question(s2)))))
    ELSE Outcome(ph, s, d, Return(FALSE, TECHNICAL_ERROR))

process_response(ph, s, d, transcription, db_ok) ==
    LET clean_text == strip(transcription) IN
    \* `transcription.strip()` on None raises AttributeError
    IF transcription = None THEN Outcome(ph, s, d, Raise)
    ELSE IF clean_text = <<>> THEN process_empty(ph, s, d)
    ELSE IF ph = "WAIT_IDENTITY" THEN process_identity(ph, s, d)
    ELSE IF ph = "WAIT_ANSWER" THEN process_answer(ph, s, d, clean_text, db_ok)
    ELSE Outcome(ph, s, d, Return(FALSE, REPEAT_REQUEST))

\* skip_question recording a blank answer for the question it skips
skip_question_records_blank(ph, s, d) ==
    IF HasCurrentQuestion(s) /\ ~current_question(s).required
    THEN LET s2 == advance_to_next_question(
                       record_response(s, current_question(s).id, <<>>)) IN
         IF s2.current_question_index >= Len(questions)
         THEN Outcome(ph, s2, d, Return(FALSE, CLOSING))
         ELSE Outcome(ph, s2, d,
                      Return(FALSE,
                             SKIPPING \o
                             format_question(s2.current_question_index + 1,
                                             TextOf(current_question(s2)))))
    ELSE Outcome(ph, s, d,
                 Return(FALSE,
                        format_question(
                            s.current_question_index + 1,
                            IF HasCurrentQuestion(s)
                            THEN current_question(s).text_ur ELSE "")))

\* skip_question without the test of question.required
skip_question_required_too(ph, s, d) ==
    IF HasCurrentQuestion(s)
    THEN LET s2 == advance_to_next_question(s) IN
         IF s2.current_question_index >= Len(questions)
         THEN Outcome(ph, s2, d, Return(FALSE, CLOSING))
         ELSE Outcome(ph, s2, d,
                      Return(FALSE,
                             SKIPPING \o
                             format_question(s2.current_question_index + 1,
                                             TextOf(current_question(s2)))))
    ELSE Outcome(ph, s, d, Return(FALSE, format_question(
                                             s.current_question_index + 1, "")))

skip_question(ph, s, d) ==
    IF HasCurrentQuestion(s) /\ ~current_question(s).required
    THEN LET s2 == advance_to_next_question(s) IN
         IF s2.current_question_index >= Len(questions)
         THEN Outcome(ph, s2, d, Return(FALSE, CLOSING))
         ELSE Outcome(ph, s2, d,
                      Return(FALSE,
                             SKIPPING \o
                             format_question(s2.current_question_index + 1,
                                             TextOf(current_question(s2)))))
    ELSE Outcome(ph, s, d,
                 Return(FALSE,
                        format_question(
                            s.current_question_index + 1,
                            IF HasCurrentQuestion(s)
                            THEN current_question(s).text_ur ELSE "")))

----------------------------------------------------------------------------
(* Actions: one per public method of the agent *)

Init ==
    /\ questions \in QuestionLists
    /\ phase = "GREETING"
    /\ session = NewSession
    /\ db = NewDb
    /\ lastOp = "none"
    /\ lastInput = <<>>
    /\ ret = Return(FALSE, EmptyUtterance)
    /\ pureRun = -1
    /\ emptyRun = -1
    /\ runAnswers = EmptyDict
    /\ sessions = EmptyDict
    /\ dbSessions = {}
    /\ now = 0
    /\ storeRet = NoRequest
    /\ NoThreads
    /\ NoBrain
    /\ NoPeers

\* the agent's fields after a call that produced `o`; a method of the agent
\* touches neither the session manager nor the sessions table's keys
Apply(o) ==
    /\ phase' = o.phase
    /\ session' = o.session
    /\ db' = o.db
    /\ ret' = o.ret
    /\ UNCHANGED questions
    /\ UNCHANGED <<storeVars, concVars, runVars, brainVars, peerVars>>

\* an empty run can begin in the state `o`: waiting for an answer, no retry
\* counted, not abandoned
RunStart(o) ==
    /\ o.phase = "WAIT_ANSWER"
    /\ o.session.retry_count = 0
    /\ o.session.state # "ABANDONED"

\* process_response reaches its database write (the insert of
\* _save_response), which is where the database can fail
WritesDb(ph, s, transcription) ==
    /\ ph = "WAIT_ANSWER"
    /\ transcription # None
    /\ strip(transcription) # <<>>
    /\ HasCurrentQuestion(s)

\* the history variables after a call other than an empty turn
ResetEmptyRun(o) ==
    /\ emptyRun' = IF RunStart(o) THEN 0 ELSE -1
    /\ runAnswers' = IF RunStart(o) THEN o.session.responses ELSE EmptyDict

GetNextUtterance ==
    \E db_ok \in BOOLEAN :
        LET o == get_next_utterance(phase, session, db, db_ok) IN
        /\ ~db_ok => phase = "CLOSING"
        /\ Apply(o)
        /\ lastOp' = "get_next_utterance"
        /\ lastInput' = <<>>
        /\ pureRun' = IF lastOp = "none" THEN 0 ELSE -1
        /\ ResetEmptyRun(o)

ProcessResponse ==
    \E transcription \in Inputs, db_ok \in BOOLEAN :
        LET o == process_response(phase, session, db, transcription, db_ok)
            empty == strip(transcription) = <<>>
        IN
        /\ empty => session.retry_count < RetryCap
        /\ ~db_ok => WritesDb(phase, session, transcription)
        /\ Apply(o)
        /\ lastOp' = "process_response"
        /\ lastInput' = transcription
        /\ pureRun' = IF ~empty /\ ~o.ret.raised /\ pureRun >= 0
                         /\ pureRun <= Len(questions)
                      THEN pureRun + 1 ELSE -1
        /\ IF empty
           THEN /\ emptyRun' = IF emptyRun >= 0 THEN emptyRun + 1 ELSE -1
                /\ runAnswers' = IF emptyRun >= 0 THEN runAnswers ELSE EmptyDict
           ELSE ResetEmptyRun(o)

SkipQuestion ==
    LET o == skip_question(phase, session, db) IN
    /\ Apply(o)
    /\ lastOp' = "skip_question"
    /\ lastInput' = <<>>
    /\ pureRun' = -1
    /\ ResetEmptyRun(o)

\* session.abandon(), the public method of the session the agent holds;
\* it returns None
Abandon ==
    LET o == Outcome(phase, abandon(session), db,
                     Return(FALSE, EmptyUtterance)) IN
    /\ Apply(o)
    /\ lastOp' = "abandon"
    /\ lastInput' = <<>>
    /\ pureRun' = -1
    /\ ResetEmptyRun(o)

Next == GetNextUtterance \/ ProcessResponse \/ SkipQuestion \/ Abandon

Spec == Init /\ [][Next]_vars

TypeOK ==
    /\ phase \in ConversationPhase
    /\ session.state \in SessionState
    /\ session.current_question_index \in 0..Len(questions)
    /\ session.retry_count \in 0..RetryCap
    /\ DOMAIN session.responses \subseteq {questions[i].id : i \in 1..Len(questions)}

----------------------------------------------------------------------------
(* SessionManager, SurveyAgent.create_for_survey and the routes that use    *)
(* them, one request at a time                                              *)

\* the values of str(uuid.uuid4())[:8]
SessionIds == 1..MaxSessions

\* SurveySession(...) of SessionManager.create_session: the fields of
\* NewSession, started_at (default datetime.now()) and the number of
\* questions of the list it is given
SurveySession(t, nq) ==
    [state |-> NewSession.state,
     current_question_index |-> NewSession.current_question_index,
     responses |-> NewSession.responses,
     retry_count |-> NewSession.retry_count,
     completed_at |-> NewSession.completed_at,
     started_at |-> t,
     nq |-> nq]

\* SessionManager.create_session: `self._sessions[session_id] = session`
create_session(ss, t, nq, session_id) ==
    (session_id :> SurveySession(t, nq)) @@ ss

\* SessionManager.get_session: the session, or None
get_session(ss, session_id) ==
    IF session_id \in DOMAIN ss THEN session_id ELSE NoSession

\* SessionManager.remove_session
remove_session(ss, session_id) ==
    IF session_id \in DOMAIN ss
    THEN [k \in DOMAIN ss \ {session_id} |-> ss[k]]
    ELSE ss

\* SessionManager.get_active_sessions (the ids of the sessions it returns)
get_active_sessions(ss) ==
    {k \in DOMAIN ss : ss[k].state \in {"CREATED", "IN_PROGRESS"}}

\* cleanup_old_sessions comparing with >= : also removes a session whose
\* age is exactly max_age_hours
cleanup_old_sessions_at_age(ss, t, max_age_hours) ==
    LET to_remove == {k \in DOMAIN ss : t - ss[k].started_at >= max_age_hours}
    IN  [sessions |-> [k \in DOMAIN ss \ to_remove |-> ss[k]],
         removed |-> to_remove]

\* SessionManager.cleanup_old_sessions at time t: the mapping it leaves and
\* the ids it removed
cleanup_old_sessions(ss, t, max_age_hours) ==
    LET to_remove == {k \in DOMAIN ss : t - ss[k].started_at > max_age_hours}
    IN  [sessions |-> [k \in DOMAIN ss \ to_remove |-> ss[k]],
         removed |-> to_remove]

\* Database.create_session: INSERT INTO sessions; id is the PRIMARY KEY, so
\* a second row with the same id raises IntegrityError
db_create_session(dbs, session_id) ==
    IF session_id \in dbs
    THEN [db |-> dbs, raised |-> TRUE]
    ELSE [db |-> dbs \cup {session_id}, raised |-> FALSE]

\* what create_for_survey leaves and returns: the mapping, the sessions
\* table, the session of the agent it returns (NoSession for None), and
\* whether it raised
Created(ss, dbs, agent, raised) ==
    [sessions |-> ss, db |-> dbs, agent |-> agent, raised |-> raised]

\* create_for_survey without the test of the question list
create_for_survey_any_questions(ss, dbs, t, survey_ok, employee_ok, nq, session_id) ==
    IF ~survey_ok THEN Created(ss, dbs, NoSession, FALSE)
    ELSE IF ~employee_ok THEN Created(ss, dbs, NoSession, FALSE)
    ELSE LET ss1 == create_session(ss, t, nq, session_id)
             ins == db_create_session(dbs, session_id) IN
         IF ins.raised THEN Created(ss1, ins.db, NoSession, TRUE)
         ELSE Created(ss1, ins.db, session_id, FALSE)

\* create_for_survey creating the session before it looks up the employee
create_for_survey_session_first(ss, dbs, t, survey_ok, employee_ok, nq, session_id) ==
    IF ~survey_ok THEN Created(ss, dbs, NoSession, FALSE)
    ELSE IF nq = 0 THEN Created(ss, dbs, NoSession, FALSE)
    ELSE LET ss1 == create_session(ss, t, nq, session_id)
             ins == db_create_session(dbs, session_id) IN
         IF ~employee_ok THEN Created(ss1, dbs, NoSession, FALSE)
         ELSE IF ins.raised THEN Created(ss1, ins.db, NoSession, TRUE)
         ELSE Created(ss1, ins.db, session_id, FALSE)

\* SurveyAgent.create_for_survey: survey_ok / employee_ok say whether
\* db.get_survey / db.get_employee found a row, nq is the length of
\* db.get_questions, session_id the value uuid4 gave
create_for_survey(ss, dbs, t, survey_ok, employee_ok, nq, session_id) ==
    IF ~survey_ok THEN Created(ss, dbs, NoSession, FALSE)
    ELSE IF ~employee_ok THEN Created(ss, dbs, NoSession, FALSE)
    ELSE IF nq = 0 THEN Created(ss, dbs, NoSession, FALSE)
    ELSE LET ss1 == create_session(ss, t, nq, session_id)
             ins == db_create_session(dbs, session_id) IN
         IF ins.raised THEN Created(ss1, ins.db, NoSession, TRUE)
         ELSE Created(ss1, ins.db, session_id, FALSE)

\* the lengths of the question list db.get_questions returns: empty or not
QuestionCounts == {0, 1}

\* what the lookups of create_for_survey find; a lookup that is not made
\* (the method has returned before it) is given as found
SetupCases ==
    {c \in [survey_ok : BOOLEAN, employee_ok : BOOLEAN, nq : QuestionCounts] :
        /\ ~c.survey_ok => c.employee_ok
        /\ ~(c.survey_ok /\ c.employee_ok) => c.nq = 1}

\* the texts posted to /agent/respond: empty and a word (`text: str` is a
\* required parameter: a request without it does not reach the function)
RouteTexts == {<<>>, <<"a">>}

\* no agent object is held between two requests
AgentIdle ==
    /\ questions = <<>>
    /\ phase = "GREETING"
    /\ session = NewSession
    /\ db = NewDb
    /\ lastOp = "none"
    /\ lastInput = <<>>
    /\ ret = Return(FALSE, EmptyUtterance)
    /\ pureRun = -1
    /\ emptyRun = -1
    /\ runAnswers = EmptyDict

\* the process starts with an empty session manager and sessions table
StoreInit ==
    /\ AgentIdle
    /\ sessions = EmptyDict
    /\ dbSessions = {}
    /\ now = 0
    /\ storeRet = NoRequest
    /\ NoThreads
    /\ NoBrain
    /\ NoPeers

\* POST /agent/start: create_for_survey, then the greeting of the new agent
StartAgentSession ==
    \E setup \in SetupCases, session_id \in SessionIds :
        LET survey_ok == setup.survey_ok
            employee_ok == setup.employee_ok
            nq == setup.nq
            c == create_for_survey(sessions, dbSessions, now,
                                   survey_ok, employee_ok, nq, session_id)
            o == get_next_utterance("GREETING", c.sessions[c.agent], NewDb, TRUE)
        IN
        /\ sessions' = c.sessions
        /\ dbSessions' = c.db
        /\ storeRet' =
              [Reply("start",
                     IF c.raised THEN 500
                     ELSE IF c.agent = NoSession THEN 400
                     ELSE IF o.ret.raised THEN 500 ELSE 200)
               EXCEPT !.session_id =
                          IF c.raised THEN session_id ELSE c.agent,
                      !.phase =
                          IF c.raised \/ c.agent = NoSession
                          THEN "GREETING" ELSE o.phase,
                      !.survey_ok = survey_ok,
                      !.employee_ok = employee_ok,
                      !.nq = nq]
        /\ UNCHANGED <<now, agentVars, runVars, brainVars, concVars,
                       peerVars>>

\* the store after a call has changed the fields of the session object it
\* got from get_session: the mapping holds that same object
mutate_session(ss, session_id, s) == [ss EXCEPT ![session_id] = s]

\* POST /agent/respond: a new agent (phase GREETING) around the stored
\* session, then process_response
ProcessAgentResponse ==
    \E session_id \in SessionIds, text \in RouteTexts :
        IF get_session(sessions, session_id) = NoSession
        THEN /\ storeRet' = Reply("respond", 404)
             /\ UNCHANGED <<sessions, dbSessions, now,
                            agentVars, runVars, brainVars, concVars, peerVars>>
        ELSE LET o == process_response("GREETING", sessions[session_id],
                                       NewDb, text, TRUE) IN
             /\ strip(text) = <<>> =>
                   sessions[session_id].retry_count < RetryCap
             /\ sessions' = mutate_session(sessions, session_id, o.session)
             /\ storeRet' =
                   [Reply("respond", IF o.ret.raised THEN 500 ELSE 200)
                    EXCEPT !.text = text, !.phase = o.phase]
             /\ UNCHANGED <<dbSessions, now,
                            agentVars, runVars, brainVars, concVars, peerVars>>

\* GET /agent/session/{id}: get_session
GetSessionStatus ==
    \E session_id \in SessionIds :
        /\ storeRet' = Reply("status",
                             IF get_session(sessions, session_id) = NoSession
                             THEN 404 ELSE 200)
        /\ UNCHANGED <<sessions, dbSessions, now,
                       agentVars, runVars, brainVars, concVars, peerVars>>

RemoveSession ==
    \E session_id \in SessionIds :
        /\ sessions' = remove_session(sessions, session_id)
        /\ storeRet' = [Reply("remove", 200) EXCEPT
                             !.removed = DOMAIN sessions \cap {session_id}]
        /\ UNCHANGED <<dbSessions, now,
                       agentVars, runVars, brainVars, concVars, peerVars>>

CleanupOldSessions ==
    \E max_age_hours \in 0..MaxClock :
        LET c == cleanup_old_sessions(sessions, now, max_age_hours) IN
        /\ sessions' = c.sessions
        /\ storeRet' = [Reply("cleanup", 200) EXCEPT
                             !.max_age_hours = max_age_hours,
                             !.removed = c.removed]
        /\ UNCHANGED <<dbSessions, now,
                       agentVars, runVars, brainVars, concVars, peerVars>>

\* an hour passes
Tick ==
    /\ now < MaxClock
    /\ now' = now + 1
    /\ UNCHANGED <<sessions, dbSessions, storeRet,
                   agentVars, runVars, brainVars, concVars, peerVars>>

StoreNext ==
    \/ StartAgentSession
    \/ ProcessAgentResponse
    \/ GetSessionStatus
    \/ RemoveSession
    \/ CleanupOldSessions
    \/ Tick

StoreSpec == StoreInit /\ [][StoreNext]_vars

----------------------------------------------------------------------------
(* The session manager called from several threads.  The routes are plain   *)
(* `def` functions, which the server runs on a thread pool; no lock is      *)
(* taken anywhere.  One dict operation is atomic; a thread can be preempted *)
(* at every call it makes, and between the test and the `del` of            *)
(* remove_session.  Every call starts with get_session_manager().           *)

\* the thread w moves to the record r
Move(w, r) == wk' = [wk EXCEPT ![w] = r]

\* the thread w leaves its call, normally or with an exception
Leave(w, err) == Move(w, Idle(err))

ConcInit ==
    /\ AgentIdle
    /\ sessions = EmptyDict
    /\ dbSessions = {}
    /\ now = 0
    /\ storeRet = NoRequest
    /\ NoThreads
    /\ NoBrain
    /\ NoPeers

\* what no step of a thread changes
ConcFrame ==
    UNCHANGED <<now, storeRet, agentVars, runVars, brainVars, peerVars>>

\* the _sessions of the manager m: `sessions` for the global manager
StoreOf(m) == IF m = manager THEN sessions ELSE stale[m]

\* the _sessions of the manager m becomes d
SetStore(m, d) ==
    IF m = manager
    THEN sessions' = d /\ UNCHANGED stale
    ELSE stale' = [stale EXCEPT ![m] = d] /\ UNCHANGED sessions

\* the calls made on the session manager, and where each one starts
ConcOps == {"create", "turn", "remove", "cleanup"}
FirstPc(op) ==
    CASE op = "create" -> "create_id"
      [] op = "turn" -> "turn_get"
      [] op = "remove" -> "remove_check"
      [] op = "cleanup" -> "cleanup_now"

\* the threads inside create_session that hold an id not yet in a mapping
Creating == {w \in Workers : wk[w].pc \in {"create_build", "create_write"}}

\* the ids uuid4 has given: a repeated id is the case of C24
IssuedIds ==
    dbSessions \cup gone \cup DOMAIN sessions
        \cup UNION {DOMAIN stale[m] : m \in Workers}
        \cup {wk[w].session_id : w \in Creating}

\* get_session_manager(): `if _session_manager is None`, and the return of
\* the global manager when there is one
GetManager(w) ==
    \E op \in ConcOps :
        /\ wk[w].pc = "idle"
        /\ IF manager = NoManager
           THEN Move(w, [Idle("none") EXCEPT !.pc = "manager_new", !.op = op])
           ELSE Move(w, [Idle("none") EXCEPT !.pc = FirstPc(op), !.op = op,
                                             !.mgr = manager])
        /\ UNCHANGED <<sessions, dbSessions, gone, manager, stale>>
        /\ ConcFrame

\* get_session_manager(): `_session_manager = SessionManager()` after the
\* test has found None, and the return of the global manager.  A manager
\* that was the global one keeps its sessions but is no longer reached
NewManager(w) ==
    /\ wk[w].pc = "manager_new"
    /\ manager' = w
    /\ sessions' = EmptyDict
    /\ stale' = IF manager = NoManager THEN stale
                ELSE [stale EXCEPT ![manager] = sessions]
    /\ Move(w, [wk[w] EXCEPT !.pc = FirstPc(wk[w].op), !.mgr = w])
    /\ UNCHANGED <<dbSessions, gone>>
    /\ ConcFrame

\* create_for_survey that passes its tests: SessionManager.create_session,
\* `session_id = str(uuid.uuid4())[:8]` with a new id
CreateId(w) ==
    \E session_id \in SessionIds \ IssuedIds :
        /\ wk[w].pc = "create_id"
        /\ Move(w, [wk[w] EXCEPT !.pc = "create_build",
                                 !.session_id = session_id])
        /\ UNCHANGED <<sessions, dbSessions, gone, manager, stale>>
        /\ ConcFrame

\* create_session: `session = SurveySession(...)`, whose started_at is
\* datetime.now() at the time of the constructor call
CreateBuild(w) ==
    /\ wk[w].pc = "create_build"
    /\ Move(w, [wk[w] EXCEPT !.pc = "create_write", !.t = now])
    /\ UNCHANGED <<sessions, dbSessions, gone, manager, stale>>
    /\ ConcFrame

\* create_session: `self._sessions[session_id] = session`, the session
\* built before
CreateWrite(w) ==
    /\ wk[w].pc = "create_write"
    /\ SetStore(wk[w].mgr,
                create_session(StoreOf(wk[w].mgr), wk[w].t, 1,
                               wk[w].session_id))
    /\ Move(w, [wk[w] EXCEPT !.pc = "create_row", !.t = 0])
    /\ UNCHANGED <<dbSessions, gone, manager>>
    /\ ConcFrame

\* create_for_survey: Database.create_session, the insert of the row
CreateRow(w) ==
    /\ wk[w].pc = "create_row"
    /\ dbSessions' = db_create_session(dbSessions, wk[w].session_id).db
    /\ Leave(w, "none")
    /\ UNCHANGED <<sessions, gone, manager, stale>>
    /\ ConcFrame

\* process_agent_response: `session = session_manager.get_session(id)`
TurnBegin(w) ==
    \E session_id \in SessionIds :
        /\ wk[w].pc = "turn_get"
        /\ IF get_session(StoreOf(wk[w].mgr), session_id) = NoSession
           THEN Leave(w, "none")
           ELSE Move(w, [wk[w] EXCEPT !.pc = "turn",
                                      !.session_id = session_id])
        /\ UNCHANGED <<sessions, dbSessions, gone, manager, stale>>
        /\ ConcFrame

\* the rest of process_agent_response: process_response on the session
\* object the thread holds, which changes the stored session if the object
\* is still in the mapping
TurnEnd(w) ==
    \E text \in RouteTexts :
        LET k == wk[w].session_id
            m == wk[w].mgr
        IN
        /\ wk[w].pc = "turn"
        /\ IF k \in DOMAIN StoreOf(m)
           THEN LET o == process_response("GREETING", StoreOf(m)[k],
                                          NewDb, text, TRUE) IN
                /\ strip(text) = <<>> => StoreOf(m)[k].retry_count < RetryCap
                /\ SetStore(m, mutate_session(StoreOf(m), k, o.session))
                /\ Leave(w, IF o.ret.raised THEN "AttributeError" ELSE "none")
           ELSE /\ UNCHANGED <<sessions, stale>>
                /\ Leave(w, "none")
        /\ UNCHANGED <<dbSessions, gone, manager>>
        /\ ConcFrame

\* remove_session: `if session_id in self._sessions`
RemoveCheck(w) ==
    \E session_id \in SessionIds :
        /\ wk[w].pc = "remove_check"
        /\ IF session_id \in DOMAIN StoreOf(wk[w].mgr)
           THEN Move(w, [wk[w] EXCEPT !.pc = "remove_del",
                                      !.session_id = session_id])
           ELSE Leave(w, "none")
        /\ UNCHANGED <<sessions, dbSessions, gone, manager, stale>>
        /\ ConcFrame

\* remove_session: `del self._sessions[session_id]` (KeyError if the key
\* is gone)
RemoveDel(w) ==
    LET k == wk[w].session_id
        m == wk[w].mgr
    IN
    /\ wk[w].pc = "remove_del"
    /\ IF k \in DOMAIN StoreOf(m)
       THEN /\ SetStore(m, remove_session(StoreOf(m), k))
            /\ gone' = gone \cup {k}
            /\ Leave(w, "none")
       ELSE /\ Leave(w, "KeyError")
            /\ UNCHANGED <<sessions, stale, gone>>
    /\ UNCHANGED <<dbSessions, manager>>
    /\ ConcFrame

\* cleanup_old_sessions: `now = datetime.now()`
CleanupNow(w) ==
    \E max_age_hours \in 0..MaxClock :
        /\ wk[w].pc = "cleanup_now"
        /\ Move(w, [wk[w] EXCEPT !.pc = "cleanup_loop",
                                 !.max_age_hours = max_age_hours,
                                 !.t = now])
        /\ UNCHANGED <<sessions, dbSessions, gone, manager, stale>>
        /\ ConcFrame

\* cleanup_old_sessions: `self._sessions.items()` and the iterator of the
\* first loop
CleanupBegin(w) ==
    /\ wk[w].pc = "cleanup_loop"
    /\ Move(w, [wk[w] EXCEPT !.pc = "cleanup_iter",
                             !.keys = DOMAIN StoreOf(wk[w].mgr)])
    /\ UNCHANGED <<sessions, dbSessions, gone, manager, stale>>
    /\ ConcFrame

\* cleanup_old_sessions: one step of the first loop.  The dict iterator
\* raises RuntimeError when the dict has changed size; when the keys have
\* changed at the same size it raises or goes on with the keys it finds
CleanupIter(w) ==
    LET r == wk[w]
        store == StoreOf(r.mgr)
        rest == DOMAIN store \ r.visited
    IN
    /\ r.pc = "cleanup_iter"
    /\ IF Cardinality(DOMAIN store) # Cardinality(r.keys)
       THEN Leave(w, "RuntimeError")
       ELSE \/ /\ DOMAIN store # r.keys
               /\ Leave(w, "RuntimeError")
            \/ /\ rest = {}
               /\ Move(w, [r EXCEPT !.pc = "cleanup_del"])
            \/ \E k \in rest :
                  Move(w, [r EXCEPT
                      !.visited = r.visited \cup {k},
                      !.to_remove =
                          IF r.t - store[k].started_at > r.max_age_hours
                          THEN r.to_remove \cup {k} ELSE r.to_remove])
    /\ UNCHANGED <<sessions, dbSessions, gone, manager, stale>>
    /\ ConcFrame

\* cleanup_old_sessions: one step of the second loop,
\* `del self._sessions[sid]` (KeyError if the key is gone)
CleanupDel(w) ==
    LET r == wk[w]
        store == StoreOf(r.mgr)
    IN
    /\ r.pc = "cleanup_del"
    /\ IF r.to_remove = {}
       THEN /\ Leave(w, "none")
            /\ UNCHANGED <<sessions, stale, gone>>
       ELSE \E k \in r.to_remove :
              IF k \in DOMAIN store
              THEN /\ SetStore(r.mgr, remove_session(store, k))
                   /\ gone' = gone \cup {k}
                   /\ Move(w, [r EXCEPT !.to_remove = r.to_remove \ {k}])
              ELSE /\ Leave(w, "KeyError")
                   /\ UNCHANGED <<sessions, stale, gone>>
    /\ UNCHANGED <<dbSessions, manager>>
    /\ ConcFrame

\* an hour passes while threads are in their calls
ConcTick ==
    /\ now < MaxClock
    /\ now' = now + 1
    /\ UNCHANGED <<sessions, dbSessions, storeRet,
                   agentVars, runVars, brainVars, concVars, peerVars>>

ConcNext ==
    \/ \E w \in Workers :
          \/ GetManager(w)
          \/ NewManager(w)
          \/ CreateId(w)
          \/ CreateBuild(w)
          \/ CreateWrite(w)
          \/ CreateRow(w)
          \/ TurnBegin(w)
          \/ TurnEnd(w)
          \/ RemoveCheck(w)
          \/ RemoveDel(w)
          \/ CleanupNow(w)
          \/ CleanupBegin(w)
          \/ CleanupIter(w)
          \/ CleanupDel(w)
    \/ ConcTick

ConcSpec == ConcInit /\ [][ConcNext]_vars

----------------------------------------------------------------------------
(* One agent whose process_response is called from several threads while    *)
(* it waits for an answer.  Nothing in SurveyAgent or in the respond route   *)
(* serialises the calls; a thread can be preempted at every call it makes   *)
(* in the WAIT_ANSWER branch, the call of a property included.               *)

\* a thread that is not in process_response
\* (question and next_q are positions in the question list, 0 for None;
\* number is the question number read for the utterance)
NotCalling ==
    [pc |-> "idle", question |-> 0, next_q |-> 0, number |-> 0,
     text |-> <<>>]

\* the answers the threads bring: thread w says a word of w letters
AnswerOf(w) == WordOfLen(w)

\* the agent after get_next_utterance() and the identity turn: it waits for
\* the answer to the first question
TurnInit ==
    /\ questions \in QuestionLists
    /\ phase = "WAIT_ANSWER"
    /\ session = NewSession
    /\ db = NewDb
    /\ lastOp = "process_response"
    /\ lastInput = AnswerOf(1)
    /\ ret = Return(TRUE,
                    format_identity_confirmed(employee_name) \o SURVEY_INTRO \o
                    format_question(1, TextOf(questions[1])))
    /\ pureRun = -1
    /\ emptyRun = -1
    /\ runAnswers = EmptyDict
    /\ sessions = EmptyDict
    /\ dbSessions = {}
    /\ now = 0
    /\ storeRet = NoRequest
    /\ wk = [w \in Workers |-> NotCalling]
    /\ gone = {}
    /\ manager = NoManager
    /\ stale = [w \in Workers |-> EmptyDict]
    /\ NoBrain
    /\ NoPeers

\* what a step of a call leaves alone
CallFrame ==
    UNCHANGED <<questions, phase, pureRun, emptyRun, runAnswers,
                storeVars, gone, manager, stale, runVars, brainVars,
                peerVars>>

\* the thread's call ends and returns or raises r
CallEnds(w, r) ==
    /\ ret' = r
    /\ Move(w, NotCalling)

\* process_response up to the call of the property in
\* `question = self.session.current_question` (phase is WAIT_ANSWER and
\* the text is not empty)
CallBegin(w) ==
    /\ wk[w].pc = "idle"
    /\ lastOp' = "process_response"
    /\ lastInput' = AnswerOf(w)
    /\ Move(w, [NotCalling EXCEPT !.pc = "question_test",
                                  !.text = strip(AnswerOf(w))])
    /\ UNCHANGED <<session, db, ret>>
    /\ CallFrame

\* current_question: the test `0 <= index < len(self.questions)`; when it
\* fails the property returns None and process_response the technical error
CallQuestionTest(w) ==
    /\ wk[w].pc = "question_test"
    /\ IF HasCurrentQuestion(session)
       THEN /\ Move(w, [wk[w] EXCEPT !.pc = "question_read"])
            /\ UNCHANGED ret
       ELSE CallEnds(w, Return(FALSE, TECHNICAL_ERROR))
    /\ UNCHANGED <<session, db, lastOp, lastInput>>
    /\ CallFrame

\* current_question: `return self.questions[self.current_question_index]`,
\* which reads the index again (IndexError when it has moved past the end)
CallQuestionRead(w) ==
    /\ wk[w].pc = "question_read"
    /\ IF HasCurrentQuestion(session)
       THEN /\ Move(w, [wk[w] EXCEPT
                           !.pc = "record",
                           !.question = session.current_question_index + 1])
            /\ UNCHANGED ret
       ELSE CallEnds(w, Raise)
    /\ UNCHANGED <<session, db, lastOp, lastInput>>
    /\ CallFrame

\* _save_response: `self.session.record_response(question.id, answer)`
CallRecord(w) ==
    /\ wk[w].pc = "record"
    /\ session' = record_response(session, questions[wk[w].question].id,
                                  wk[w].text)
    /\ Move(w, [wk[w] EXCEPT !.pc = "insert"])
    /\ UNCHANGED <<db, lastOp, lastInput, ret>>
    /\ CallFrame

\* _save_response: `db.save_response(...)`, the insert of the row
CallInsert(w) ==
    /\ wk[w].pc = "insert"
    /\ db' = save_response(db, questions[wk[w].question].id, wk[w].text)
    /\ Move(w, [wk[w] EXCEPT !.pc = "advance"])
    /\ UNCHANGED <<session, lastOp, lastInput, ret>>
    /\ CallFrame

\* `self.session.advance_to_next_question()`
CallAdvance(w) ==
    /\ wk[w].pc = "advance"
    /\ session' = advance_to_next_question(session)
    /\ Move(w, [wk[w] EXCEPT !.pc = "more"])
    /\ UNCHANGED <<db, lastOp, lastInput, ret>>
    /\ CallFrame

\* `if self.session.current_question_index >= len(self.session.questions)`
\* and, if not, the call of the property in
\* `next_q = self.session.current_question`
CallMore(w) ==
    /\ wk[w].pc = "more"
    /\ IF session.current_question_index >= Len(questions)
       THEN CallEnds(w, Return(TRUE, CLOSING))
       ELSE /\ Move(w, [wk[w] EXCEPT !.pc = "next_test"])
            /\ UNCHANGED ret
    /\ UNCHANGED <<session, db, lastOp, lastInput>>
    /\ CallFrame

\* current_question, for next_q: the test of the index
CallNextTest(w) ==
    /\ wk[w].pc = "next_test"
    /\ Move(w, [wk[w] EXCEPT
                   !.pc = IF HasCurrentQuestion(session)
                          THEN "next_read" ELSE "reply"])
    /\ UNCHANGED <<session, db, lastOp, lastInput, ret>>
    /\ CallFrame

\* current_question, for next_q: the index read again and the list indexed
CallNextRead(w) ==
    /\ wk[w].pc = "next_read"
    /\ IF HasCurrentQuestion(session)
       THEN /\ Move(w, [wk[w] EXCEPT
                           !.pc = "reply",
                           !.next_q = session.current_question_index + 1])
            /\ UNCHANGED ret
       ELSE CallEnds(w, Raise)
    /\ UNCHANGED <<session, db, lastOp, lastInput>>
    /\ CallFrame

\* the arguments of the utterance: the index is read once more for the
\* number, and `next_q.text_ur` raises AttributeError when next_q is None
CallReply(w) ==
    /\ wk[w].pc = "reply"
    /\ IF wk[w].next_q = 0
       THEN CallEnds(w, Raise)
       ELSE /\ Move(w, [wk[w] EXCEPT
                           !.pc = "format",
                           !.number = session.current_question_index + 1])
            /\ UNCHANGED ret
    /\ UNCHANGED <<session, db, lastOp, lastInput>>
    /\ CallFrame

\* the call of prompts.format_question with the arguments read before, and
\* the return of the utterance
CallFormat(w) ==
    /\ wk[w].pc = "format"
    /\ CallEnds(w, Return(TRUE,
                          ACKNOWLEDGE_NEXT \o
                          format_question(wk[w].number,
                                          TextOf(questions[wk[w].next_q]))))
    /\ UNCHANGED <<session, db, lastOp, lastInput>>
    /\ CallFrame

TurnNext ==
    \E w \in Workers :
        \/ CallBegin(w)
        \/ CallQuestionTest(w)
        \/ CallQuestionRead(w)
        \/ CallRecord(w)
        \/ CallInsert(w)
        \/ CallAdvance(w)
        \/ CallMore(w)
        \/ CallNextTest(w)
        \/ CallNextRead(w)
        \/ CallReply(w)
        \/ CallFormat(w)

TurnSpec == TurnInit /\ [][TurnNext]_vars

----------------------------------------------------------------------------
(* Several agents made by create_for_survey, each over its own session of   *)
(* the store, called one at a time.  A session is a Python object: its int  *)
(* and enum fields are its own, and `responses` is a reference to a dict    *)
(* object, which record_response changes in place.  The sessions are of     *)
(* one survey, so they have the same question rows.                         *)

\* `responses` with one dict object as the default of every session
default_factory_dict_one_object(k) == 1

\* `responses` of the k-th SurveySession built: field(default_factory=dict)
\* calls dict() in every constructor call, which gives a new object
default_factory_dict(k) == k

\* the agent create_for_survey returns for the k-th session:
\* SurveyAgent(session) over the new session, and the session's rows
NewPeer(k) ==
    [phase |-> "GREETING",
     session |-> [NewSession EXCEPT !.responses = default_factory_dict(k)],
     db |-> NewDb]

\* the session of the agent k as its methods read it: the fields, and the
\* contents of the dict `responses` refers to
SessionOf(k) == [peers[k].session EXCEPT !.responses = dicts[@]]

\* the surveys
PeerSurveys ==
    {q \in QuestionLists : \A i \in 1..Len(q) : q[i].text_ur # ""}

\* the texts given to the agents
PeerTexts == {<<>>, WordOfLen(1)}

\* the state after create_for_survey has made an agent for every id
PeersInit ==
    /\ questions \in PeerSurveys
    /\ phase = "GREETING"
    /\ session = NewSession
    /\ db = NewDb
    /\ lastOp = "none"
    /\ lastInput = <<>>
    /\ ret = Return(FALSE, EmptyUtterance)
    /\ pureRun = -1
    /\ emptyRun = -1
    /\ runAnswers = EmptyDict
    /\ sessions = EmptyDict
    /\ dbSessions = {}
    /\ now = 0
    /\ storeRet = NoRequest
    /\ NoThreads
    /\ NoBrain
    /\ peers = [k \in SessionIds |-> NewPeer(k)]
    /\ dicts = [r \in {default_factory_dict(k) : k \in SessionIds}
                   |-> EmptyDict]
    /\ called = NoSession
    /\ peerCalls = 0

\* the objects after a call on the agent k that produced `o`: the fields of
\* the agent and of its session, and the dict its session refers to
PeerApply(k, o) ==
    /\ peers' = [peers EXCEPT ![k] =
                    [phase |-> o.phase,
                     session |-> [o.session EXCEPT
                                     !.responses = peers[k].session.responses],
                     db |-> o.db]]
    /\ dicts' = [dicts EXCEPT ![peers[k].session.responses] =
                    o.session.responses]
    /\ called' = k
    /\ peerCalls < MaxPeerCalls
    /\ peerCalls' = peerCalls + 1
    /\ UNCHANGED <<questions, phase, session, db, lastOp, lastInput, ret,
                   pureRun, emptyRun, runAnswers>>
    /\ UNCHANGED <<storeVars, concVars, runVars, brainVars>>

PeerGetNextUtterance(k) ==
    \E db_ok \in BOOLEAN :
        /\ ~db_ok => peers[k].phase = "CLOSING"
        /\ PeerApply(k, get_next_utterance(peers[k].phase, SessionOf(k),
                                           peers[k].db, db_ok))

PeerProcessResponse(k) ==
    \E transcription \in PeerTexts, db_ok \in BOOLEAN :
        /\ strip(transcription) = <<>>
              => peers[k].session.retry_count < RetryCap
        /\ ~db_ok => WritesDb(peers[k].phase, SessionOf(k), transcription)
        /\ PeerApply(k, process_response(peers[k].phase, SessionOf(k),
                                         peers[k].db, transcription, db_ok))

PeerSkipQuestion(k) ==
    PeerApply(k, skip_question(peers[k].phase, SessionOf(k), peers[k].db))

PeersNext ==
    \E k \in SessionIds :
        \/ PeerGetNextUtterance(k)
        \/ PeerProcessResponse(k)
        \/ PeerSkipQuestion(k)

PeersSpec == PeersInit /\ [][PeersNext]_vars

----------------------------------------------------------------------------
(* Vocabulary of the claims *)

cursor == session.current_question_index
answers == session.responses
retryCount == session.retry_count
NumQuestions == Len(questions)

\* the session is abandoned (SessionState.ABANDONED); the agent's phase has
\* no member for it
Abandoned == session.state = "ABANDONED"

\* the phase of the conversation: the agent's phase, unless abandoned
SpecPhase == IF Abandoned THEN "ABANDONED" ELSE phase

\* the step is a call of process_response (an advance) that returned
AdvanceReturned == lastOp' = "process_response" /\ ~ret'.raised

\* the text the advance was given has content / has none (after strip, the
\* code's test for an empty turn)
NonEmptyTurn == lastInput' # None /\ strip(lastInput') # <<>>
EmptyTurn == strip(lastInput') = <<>>

\* the outcomes, as the caller reads them off the returned tuple and the
\* session (the respond route reports success and session.is_complete)
OutcomeContinue == ~ret.raised /\ ret.success /\ ~is_complete(session)
OutcomeComplete == ~ret.raised /\ ret.success /\ is_complete(session)
OutcomeAbandoned == ~ret.raised /\ ~ret.success /\ Abandoned

\* the utterances of the scripted flow
IntroAndQuestion(i) ==
    format_identity_confirmed(employee_name) \o SURVEY_INTRO \o
    format_question(i, TextOf(questions[i]))
AckAndQuestion(i) ==
    ACKNOWLEDGE_NEXT \o format_question(i, TextOf(questions[i]))

----------------------------------------------------------------------------
(* Claims *)

\* C1: across every call the cursor never decreases and never exceeds the
\* number of questions.
C1_CursorMonotoneBounded ==
    [][ /\ session'.current_question_index >= session.current_question_index
        /\ session'.current_question_index <= Len(questions) ]_vars

\* C1 witness: advances have moved the cursor to the end of a survey of
\* MaxQuestions questions.
C1_Witness ==
    /\ lastOp = "process_response"
    /\ NumQuestions = MaxQuestions
    /\ cursor = NumQuestions

\* C2: the number of recorded answers is at most the cursor, also after a
\* failed durable write of an answer.
C2_AnswersAtMostCursor == Cardinality(DOMAIN answers) <= cursor

\* C3: after start on a fresh session, the first non-empty advance returns
\* CONTINUE with cursor 0 and question 1; the k-th following one (k < n)
\* leaves cursor k and returns CONTINUE with acknowledgment + question k+1;
\* the last one leaves cursor n, returns COMPLETE with the closing utterance,
\* and answers has n entries.
C3_ScriptedRun ==
    /\ pureRun = 1 =>
          /\ cursor = 0
          /\ OutcomeContinue
          /\ ret.utterance = IntroAndQuestion(1)
    /\ (pureRun >= 2 /\ pureRun <= NumQuestions) =>
          /\ cursor = pureRun - 1
          /\ OutcomeContinue
          /\ ret.utterance = AckAndQuestion(pureRun)
    /\ pureRun = NumQuestions + 1 =>
          /\ cursor = NumQuestions
          /\ OutcomeComplete
          /\ ret.utterance = CLOSING
          /\ Cardinality(DOMAIN answers) = NumQuestions

\* C3 witness: the scripted run of a survey of at least two questions has
\* reached its last advance.
C3_Witness == NumQuestions >= 2 /\ pureRun = NumQuestions + 1

\* C4: a non-empty advance in WAIT_ANSWER at cursor i records the text under
\* the id of questions[i] and no other key, adds 1 to the cursor, resets
\* retryCount, and the phase becomes CLOSING at the end of the questions and
\* stays WAIT_ANSWER otherwise.
C4_AnswerTurn ==
    [][ ( /\ AdvanceReturned
          /\ NonEmptyTurn
          /\ SpecPhase = "WAIT_ANSWER"
          /\ cursor < NumQuestions )
        => /\ session'.responses =
                (questions[cursor + 1].id :> strip(lastInput')) @@ answers
           /\ session'.current_question_index = cursor + 1
           /\ session'.retry_count = 0
           /\ phase' = IF cursor + 1 = NumQuestions
                       THEN "CLOSING" ELSE "WAIT_ANSWER" ]_vars

\* C5: a non-empty advance in WAIT_IDENTITY (cursor 0) moves the phase to
\* WAIT_ANSWER in one step, leaves the cursor at 0, records no answer and
\* returns confirmation + survey intro + question 1.
C5_IdentityTurn ==
    [][ ( /\ lastOp' = "process_response"
          /\ NonEmptyTurn
          /\ phase = "WAIT_IDENTITY"
          /\ cursor = 0 )
        => /\ phase' = "WAIT_ANSWER"
           /\ session'.current_question_index = 0
           /\ session'.responses = answers
           /\ ret' = Return(TRUE, IntroAndQuestion(1)) ]_vars

\* C5 witness: the identity turn has just been taken, after an empty turn.
C5_Witness ==
    /\ lastOp = "process_response"
    /\ lastInput # None
    /\ strip(lastInput) # <<>>
    /\ phase = "WAIT_ANSWER"
    /\ retryCount >= 1
    /\ cursor = 0
    /\ answers = EmptyDict
    /\ ret.utterance = IntroAndQuestion(1)

\* C6: an empty advance in WAIT_IDENTITY or WAIT_ANSWER adds exactly 1 to
\* retryCount and leaves cursor and answers alone; the session becomes
\* ABANDONED iff the new retryCount exceeds the maximum, and otherwise the
\* phase is unchanged and a repeat-request is returned.
C6_EmptyTurn ==
    [][ ( /\ lastOp' = "process_response"
          /\ EmptyTurn
          /\ SpecPhase \in {"WAIT_IDENTITY", "WAIT_ANSWER"} )
        => /\ session'.retry_count = retryCount + 1
           /\ session'.current_question_index = cursor
           /\ session'.responses = answers
           /\ (session'.state = "ABANDONED") <=>
                 (session'.retry_count > max_retries)
           /\ session'.retry_count > max_retries =>
                 ret' = Return(FALSE, CALL_LATER)
           /\ session'.retry_count <= max_retries =>
                 /\ phase' = phase
                 /\ session'.state = session.state
                 /\ ret' = Return(FALSE, REPEAT_REQUEST) ]_vars

\* C6 witness: the empty turn that abandons has been taken while waiting
\* for an answer.
C6_Witness ==
    /\ lastOp = "process_response"
    /\ strip(lastInput) = <<>>
    /\ phase = "WAIT_ANSWER"
    /\ Abandoned
    /\ retryCount = max_retries + 1

\* C7: from WAIT_ANSWER with retryCount 0, max_retries + 1 consecutive empty
\* advances: none of the first max_retries abandons, the next one does
\* (outcome ABANDONED), and none of them changes answers.
C7_EmptyRun ==
    /\ (emptyRun >= 1 /\ emptyRun <= max_retries) =>
          /\ ~Abandoned
          /\ ret = Return(FALSE, REPEAT_REQUEST)
          /\ answers = runAnswers
    /\ emptyRun = max_retries + 1 =>
          /\ OutcomeAbandoned
          /\ ret = Return(FALSE, CALL_LATER)
          /\ phase = "WAIT_ANSWER"
          /\ answers = runAnswers

\* C7 witness: the (max_retries + 1)-th empty advance of such a run has
\* been taken, with no answer recorded before (scenario B).
C7_Witness ==
    /\ emptyRun = max_retries + 1
    /\ NumQuestions = 1
    /\ questions[1].required
    /\ answers = EmptyDict

\* C8: retryCount is 0 after every advance that captures an answer and after
\* every advance that moves the phase, in particular WAIT_IDENTITY ->
\* WAIT_ANSWER.
C8_RetryResetOnProgress ==
    [][ ( /\ AdvanceReturned
          /\ \/ session'.current_question_index # cursor
             \/ phase' # phase )
        => session'.retry_count = 0 ]_vars

\* C9: in every state of a started session, retryCount above the maximum
\* implies the session is ABANDONED.
C9_OverMaxIsAbandoned ==
    (phase # "GREETING" /\ retryCount > max_retries) => Abandoned

\* C10: once a started session is ABANDONED, it is ABANDONED in every later
\* state, whatever call follows.
C10_AbandonedAbsorbing ==
    [][ (phase # "GREETING" /\ Abandoned) => Abandoned' ]_vars


\* the session is started: start has moved the agent out of GREETING
Started == phase # "GREETING"

\* the step is a call of process_response with a text (not None)
AdvanceWithText == lastOp' = "process_response" /\ lastInput' # None

\* C11: an advance on an ABANDONED session is a no-op: whatever the text,
\* cursor, answers and retryCount are unchanged, the session stays
\* ABANDONED and the call returns an empty utterance.
C11_AdvanceOnAbandoned ==
    [][ (AdvanceWithText /\ Started /\ Abandoned)
        => /\ session'.current_question_index = cursor
           /\ session'.responses = answers
           /\ session'.retry_count = retryCount
           /\ phase' = phase
           /\ Abandoned'
           /\ ret' = Return(FALSE, EmptyUtterance) ]_vars


\* C12: whenever the cursor is at the end of the questions, the phase is
\* CLOSING or DONE.
C12_CursorAtEndIsClosing ==
    cursor = NumQuestions => phase \in {"CLOSING", "DONE"}

\* the advance that captured the answer to the last question has just
\* returned the closing utterance
LastAnswerCaptured ==
    /\ lastOp = "process_response"
    /\ ret = Return(TRUE, CLOSING)
    /\ cursor = NumQuestions
    /\ questions[NumQuestions].id \in DOMAIN answers

\* C13: after the answer to the last question has been captured, the next
\* advance, whatever its text, moves the phase to DONE and returns COMPLETE
\* with an empty utterance, leaving cursor, answers and retryCount alone.
C13_AdvanceAfterLastAnswer ==
    [][ (LastAnswerCaptured /\ AdvanceWithText)
        => /\ phase' = "DONE"
           /\ OutcomeComplete'
           /\ ret'.utterance = EmptyUtterance
           /\ session'.current_question_index = cursor
           /\ session'.responses = answers
           /\ session'.retry_count = retryCount ]_vars


\* C14: advance is idempotent on a DONE session: every advance returns
\* COMPLETE with an empty utterance and leaves phase, cursor, answers and
\* retryCount unchanged.
C14_AdvanceOnDone ==
    [][ (AdvanceWithText /\ phase = "DONE")
        => /\ phase' = "DONE"
           /\ session' = session
           /\ OutcomeComplete'
           /\ ret'.utterance = EmptyUtterance ]_vars


\* the edges of the phase graph: the scripted flow, the compound identity
\* step, and abandonment from the two waiting phases
PhaseEdges ==
    {<<"GREETING", "WAIT_IDENTITY">>, <<"WAIT_IDENTITY", "CONFIRMED">>,
     <<"CONFIRMED", "INTRO">>, <<"INTRO", "ASK_QUESTION">>,
     <<"INTRO", "WAIT_ANSWER">>, <<"ASK_QUESTION", "WAIT_ANSWER">>,
     <<"WAIT_ANSWER", "ASK_QUESTION">>, <<"WAIT_IDENTITY", "WAIT_ANSWER">>,
     <<"WAIT_ANSWER", "CLOSING">>, <<"CLOSING", "DONE">>,
     <<"WAIT_IDENTITY", "ABANDONED">>, <<"WAIT_ANSWER", "ABANDONED">>}

\* C15: every phase change of a started session follows an edge of the
\* phase graph; no terminal phase is left.
C15_PhaseGraph ==
    [][ (Started /\ SpecPhase' # SpecPhase)
        => <<SpecPhase, SpecPhase'>> \in PhaseEdges ]_vars


\* the step is a call of skip_question
SkipStep == lastOp' = "skip_question"

\* the prompt of the question at the cursor, as the agent asks it
CurrentPrompt ==
    format_question(cursor + 1, TextOf(current_question(session)))

\* C16: skip on a required current question changes nothing (cursor,
\* answers, retryCount, session state, phase) and returns the prompt of that
\* same question.
C16_SkipRequired ==
    [][ ( /\ SkipStep
          /\ Started
          /\ HasCurrentQuestion(session)
          /\ current_question(session).required )
        => /\ session' = session
           /\ phase' = phase
           /\ ret' = Return(FALSE, CurrentPrompt) ]_vars

\* C17: skip on an optional current question adds exactly 1 to the cursor
\* and adds no entry to answers.
C17_SkipOptional ==
    [][ ( /\ SkipStep
          /\ HasCurrentQuestion(session)
          /\ ~current_question(session).required )
        => /\ session'.current_question_index = cursor + 1
           /\ session'.responses = answers ]_vars

\* C17 witness: the second, optional question of a survey has just been
\* skipped after the first one was answered.
C17_Witness ==
    /\ lastOp = "skip_question"
    /\ NumQuestions = 2
    /\ ~questions[2].required
    /\ cursor = 2
    /\ DOMAIN answers = {questions[1].id}
    /\ ret = Return(FALSE, CLOSING)

\* C18: skip with no current question (cursor at the end) changes no state
\* and returns an empty utterance.
C18_SkipAtEnd ==
    [][ (SkipStep /\ Started /\ cursor = NumQuestions)
        => /\ session' = session
           /\ phase' = phase
           /\ db' = db
           /\ ret' = Return(FALSE, EmptyUtterance) ]_vars


\* the step is an advance with a non-empty text in WAIT_ANSWER at a current
\* question, during which no response row reached the database
AnswerTurnWithoutDurableWrite ==
    /\ AdvanceWithText
    /\ NonEmptyTurn
    /\ phase = "WAIT_ANSWER"
    /\ HasCurrentQuestion(session)
    /\ db'.responses = db.responses

\* C19: when the durable write of an answer fails, the session still
\* advances in the same call: the answer is in answers, the cursor has
\* moved by 1 and the call returns the next utterance, not an error.
C19_AdvanceDespiteFailedWrite ==
    [][ AnswerTurnWithoutDurableWrite
        => /\ current_question(session).id \in DOMAIN session'.responses
           /\ session'.current_question_index = cursor + 1
           /\ ~ret'.raised
           /\ ret'.utterance # EmptyUtterance ]_vars

\* C20: an absent transcription is handled like the empty string: in
\* WAIT_IDENTITY or WAIT_ANSWER the call raises nothing, adds 1 to
\* retryCount and returns the repeat-request or the abandonment line.
C20_AbsentLikeEmpty ==
    [][ ( /\ lastOp' = "process_response"
          /\ lastInput' = None
          /\ SpecPhase \in {"WAIT_IDENTITY", "WAIT_ANSWER"} )
        => /\ ~ret'.raised
           /\ session'.retry_count = retryCount + 1
           /\ ret'.utterance \in {REPEAT_REQUEST, CALL_LATER} ]_vars


\* C21: the answer stored for a question, in the session and in the response
\* row, is exactly the text that was passed to the advance, character for
\* character, also when it has leading or trailing whitespace.
C21_StoredVerbatim ==
    [][ ( /\ AdvanceReturned
          /\ NonEmptyTurn
          /\ phase = "WAIT_ANSWER"
          /\ HasCurrentQuestion(session) )
        => /\ session'.responses[current_question(session).id] = lastInput'
           /\ db'.responses[Len(db'.responses)].answer_text = lastInput' ]_vars


\* C30: the final status reaches persistence: once the answer to the last
\* question is captured the session is COMPLETED with completed_at set and
\* the stored session row says completed, and once the retries are exhausted
\* the stored session row no longer says in_progress.
C30_FinalStatusPersisted ==
    /\ LastAnswerCaptured =>
          /\ session.state = "COMPLETED"
          /\ session.completed_at
          /\ db.session_status = "completed"
    /\ (lastOp = "process_response" /\ OutcomeAbandoned) =>
          db.session_status # "in_progress"


\* the step is a request to /agent/start (the clock stands still during a
\* request, and every request but a tick writes storeRet)
StartStep == storeRet'.op = "start" /\ now' = now

\* the step is a call of cleanup_old_sessions
CleanupStep == storeRet'.op = "cleanup" /\ now' = now

\* C22: a start for an empty question list fails (SETUP: the request is
\* refused) and performs no transition; a start for a survey with at least
\* one question, whose session could be created, never fails and reaches
\* WAIT_IDENTITY; no session with an empty question list is ever created, so
\* none reaches WAIT_IDENTITY.
C22_StartNeedsQuestions ==
    [][ StartStep
        => /\ storeRet'.nq = 0 =>
                 /\ storeRet'.status = 400
                 /\ storeRet'.phase = "GREETING"
                 /\ sessions' = sessions
           /\ ( /\ storeRet'.survey_ok
                /\ storeRet'.employee_ok
                /\ storeRet'.nq >= 1
                /\ storeRet'.session_id \notin dbSessions ) =>
                 /\ storeRet'.status = 200
                 /\ storeRet'.phase = "WAIT_IDENTITY"
           /\ storeRet'.phase = "WAIT_IDENTITY" =>
                 sessions'[storeRet'.session_id].nq >= 1
           /\ \A k \in DOMAIN sessions' : sessions'[k].nq >= 1 ]_vars

\* C22 witness: a start for an empty question list has been refused while
\* the store holds a session.
C22_Witness ==
    /\ storeRet.op = "start"
    /\ storeRet.nq = 0
    /\ storeRet.status = 400
    /\ DOMAIN sessions # {}

\* C23: when creation fails with a SETUP error (survey missing, employee
\* missing or question list empty), the request is refused and neither the
\* session manager's mapping nor the sessions table changes.
C23_FailedCreateLeavesNothing ==
    [][ ( /\ StartStep
          /\ \/ ~storeRet'.survey_ok
             \/ ~storeRet'.employee_ok
             \/ storeRet'.nq = 0 )
        => /\ storeRet'.status = 400
           /\ storeRet'.session_id = NoSession
           /\ sessions' = sessions
           /\ dbSessions' = dbSessions ]_vars

\* C23 witness: a creation has failed for a missing employee, with a session
\* in the store and a row in the sessions table.
C23_Witness ==
    /\ storeRet.op = "start"
    /\ storeRet.status = 400
    /\ ~storeRet.employee_ok
    /\ DOMAIN sessions # {}
    /\ dbSessions # {}

\* C24: every create returns an identifier that no session in the store
\* has, so it replaces no session: every session that was in the store is
\* still there, unchanged, under its own identifier.
C24_FreshIdentifier ==
    [][ (StartStep /\ storeRet'.session_id # NoSession)
        => /\ storeRet'.session_id \notin DOMAIN sessions
           /\ \A k \in DOMAIN sessions :
                 k \in DOMAIN sessions' /\ sessions'[k] = sessions[k] ]_vars

\* C26: cleanup_old_sessions removes exactly the sessions whose started_at
\* is before the cutoff (now minus max_age_hours), whatever their state, and
\* leaves every other session in the store with its fields unchanged.
C26_EvictExactlyOld ==
    [][ CleanupStep
        => LET cutoff == now - storeRet'.max_age_hours IN
           /\ DOMAIN sessions' =
                 {k \in DOMAIN sessions : ~(sessions[k].started_at < cutoff)}
           /\ \A k \in DOMAIN sessions' : sessions'[k] = sessions[k]
           /\ storeRet'.removed = DOMAIN sessions \ DOMAIN sessions' ]_vars

\* C26 witness: a cleanup has removed a session and kept another one, which
\* is abandoned.
C26_Witness ==
    /\ storeRet.op = "cleanup"
    /\ storeRet.removed # {}
    /\ \E k \in DOMAIN sessions : sessions[k].state = "ABANDONED"


\* the session manager's mapping while it holds the session of the agent
OneSessionStore == (1 :> session)

\* C25: get_active_sessions lists exactly the stored sessions whose
\* conversation is neither DONE nor ABANDONED; a session whose last question
\* has been answered is not listed.
C25_ListActive ==
    /\ (1 \in get_active_sessions(OneSessionStore)) <=>
          (SpecPhase \notin {"DONE", "ABANDONED"})
    /\ LastAnswerCaptured => get_active_sessions(OneSessionStore) = {}


\* the thread w is in a turn on the session k: it has looked the session up
\* and its process_response has not returned
MidTurn(w, k) == wk[w].pc = "turn" /\ wk[w].session_id = k

\* the step is a delete of cleanup_old_sessions that takes k out of the store
Evicts(k) ==
    /\ k \in DOMAIN sessions
    /\ k \notin DOMAIN sessions'
    /\ \E w \in Workers : wk[w].pc = "cleanup_del" /\ wk'[w] # wk[w]

\* C27: eviction never removes a session while a turn on that session is in
\* flight, in any interleaving of cleanup_old_sessions with turns.
C27_NoEvictionMidTurn ==
    [][ \A k \in SessionIds :
          Evicts(k) => ~(\E v \in Workers : MidTurn(v, k)) ]_vars

\* C28: with create, get, remove and cleanup running in several threads,
\* no call ends with an exception, and whenever no call is in progress the
\* mapping holds exactly the sessions created and not removed or evicted.
C28_NoCorruption ==
    /\ \A w \in Workers : wk[w].err = "none"
    /\ (\A w \in Workers : wk[w].pc = "idle") =>
          DOMAIN sessions = dbSessions \ gone


\* the threads that are inside process_response
InFlight == {w \in Workers : wk[w].pc # "idle"}

\* C29: at most one turn is in flight on the session at any time, so two
\* simultaneous answers are never applied to the same question and the
\* cursor never moves by two for one recorded answer: the cursor is the
\* number of answers whenever no turn is in flight.
C29_OneTurnInFlight ==
    /\ Cardinality(InFlight) <= 1
    /\ \A w, v \in InFlight : w # v => wk[w].question # wk[v].question
    /\ InFlight = {} => cursor = Cardinality(DOMAIN answers)


\* the ids of the questions of the session
QuestionIds == {questions[i].id : i \in 1..Len(questions)}

\* C31: in every reachable state, every key of the session's answers is the
\* id of one of the session's questions.
C31_AnswerKeysAreQuestionIds == DOMAIN answers \subseteq QuestionIds

\* C31 witness: every question of the longest survey has an answer, the
\* last one recorded by a call whose database insert failed.
C31_Witness ==
    /\ NumQuestions = MaxQuestions
    /\ DOMAIN answers = QuestionIds
    /\ lastOp = "process_response"
    /\ ret.raised


\* the utterances that report an error to the caller
ErrorUtterances == {REPEAT_REQUEST, CALL_LATER, TECHNICAL_ERROR}

\* C32: every advance with a text on a started session that is neither DONE
\* nor ABANDONED, other than one that reaches the database, returns (it does
\* not raise), and when it reports failure its utterance is the repeat
\* request, the abandonment line or the technical-error line.
C32_ErrorPathsReturnUtterance ==
    [][ ( /\ AdvanceWithText
          /\ Started
          /\ SpecPhase \notin {"DONE", "ABANDONED"}
          /\ ~WritesDb(phase, session, lastInput') )
        => /\ ~ret'.raised
           /\ ~ret'.success =>
                 (ret'.utterance \in ErrorUtterances
                  /\ ret'.utterance # EmptyUtterance) ]_vars


\* C36: a required question is never passed without an answer: each
\* question at an index below the cursor has its id among the answers or is
\* not required.
C36_RequiredNeverPassed ==
    \A i \in 1..NumQuestions :
        i <= cursor => (questions[i].id \in DOMAIN answers
                        \/ ~questions[i].required)

\* C36 witness: every question of the longest survey is required and has
\* been passed, and the call that ended last was a skip.
C36_Witness ==
    /\ NumQuestions = MaxQuestions
    /\ cursor = NumQuestions
    /\ \A i \in 1..NumQuestions : questions[i].required
    /\ lastOp = "skip_question"


(* Python floats: progress_percent is (index / len) * 100 in IEEE 754      *)
(* doubles, and get_status formats it with `:.0f`.  A positive double is a  *)
(* mantissa of 53 bits (a sequence, most significant bit first, which is 1) *)
(* and an exponent e: its value is the mantissa read as an integer, times   *)
(* 2^e.                                                                     *)

Zero == [zero |-> TRUE, m |-> <<>>, e |-> 0]
Double(m, e) == [zero |-> FALSE, m |-> m, e |-> e]

RECURSIVE IntBits(_)
\* the binary digits of the natural number k (none for 0)
IntBits(k) == IF k = 0 THEN <<>> ELSE Append(IntBits(k \div 2), k % 2)

RECURSIVE BitsValue(_, _)
\* the number whose binary digits are the first j bits of b
BitsValue(b, j) == IF j = 0 THEN 0 ELSE 2 * BitsValue(b, j - 1) + b[j]

BitsToInt(b) == BitsValue(b, Len(b))

\* b + 1
Inc(b) ==
    LET zeros == {j \in 1..Len(b) : b[j] = 0} IN
    IF zeros = {} THEN <<1>> \o [i \in 1..Len(b) |-> 0]
    ELSE LET last == CHOOSE j \in zeros : \A k \in zeros : k <= j IN
         [i \in 1..Len(b) |->
             IF i < last THEN b[i] ELSE IF i = last THEN 1 ELSE 0]

\* the number k < 2^15 in 15 binary digits
Limb(k) == [j \in 1..15 |-> (k \div 2^(15 - j)) % 2]

\* m * 100, for a mantissa m of 53 bits: multiplied in three pieces, of 23,
\* 15 and 15 bits, low piece first, each carrying into the next
Times100(m) ==
    LET lo == BitsToInt(SubSeq(m, 39, 53)) * 100
        mid == BitsToInt(SubSeq(m, 24, 38)) * 100 + lo \div 2^15
        hi == BitsToInt(SubSeq(m, 1, 23)) * 100 + mid \div 2^15
    IN IntBits(hi) \o Limb(mid % 2^15) \o Limb(lo % 2^15)

\* b * 2^j
Shl(b, j) == b \o [i \in 1..j |-> 0]

\* round to nearest, ties to even: the bits b (the first is 1, at least 53
\* of them), followed by something non-zero iff sticky, cut to 53 bits;
\* `dropped` is the number of low bits cut off
Round53(b, sticky) ==
    LET keep == SubSeq(b, 1, 53)
        guard == IF Len(b) > 53 THEN b[54] ELSE 0
        rest == sticky \/ \E j \in 55..Len(b) : b[j] = 1
        up == guard = 1 /\ (rest \/ keep[53] = 1)
        m == IF up THEN Inc(keep) ELSE keep
    IN IF Len(m) = 54
       THEN [m |-> SubSeq(m, 1, 53), dropped |-> Len(b) - 53 + 1]
       ELSE [m |-> m, dropped |-> Len(b) - 53]

RECURSIVE QuotientBits(_, _, _, _)
\* long division: the first 54 significant bits of a quotient whose bits so
\* far are sig, with remainder r of the divisor n, after k fractional bits
QuotientBits(sig, r, n, k) ==
    IF Len(sig) = 54 THEN [sig |-> sig, r |-> r, k |-> k]
    ELSE LET bit == IF 2 * r >= n THEN 1 ELSE 0 IN
         QuotientBits(IF sig = <<>> /\ bit = 0 THEN sig ELSE Append(sig, bit),
                      2 * r - bit * n, n, k + 1)

\* i / n of two ints (i >= 0, n > 0): the correctly rounded quotient
float_div(i, n) ==
    IF i = 0 THEN Zero
    ELSE LET q == QuotientBits(IntBits(i \div n), i % n, n, 0)
             c == Round53(q.sig, q.r # 0)
         IN Double(c.m, c.dropped - q.k)

\* x * 100: the correctly rounded product
float_times_100(x) ==
    IF x.zero THEN Zero
    ELSE LET c == Round53(Times100(x.m), FALSE)
         IN Double(c.m, x.e + c.dropped)

\* f"{x:.0f}", as the integer it writes: the exact value of the double
\* rounded to the nearest integer, a tie to the even one (for x below 2^31)
format_0f(x) ==
    IF x.zero THEN 0
    ELSE LET nint == 53 + x.e    \* the bits of the mantissa left of the point
         IN IF nint < 0 THEN 0
            ELSE IF nint >= 53 THEN BitsToInt(Shl(x.m, x.e))
            ELSE LET ip == BitsToInt(SubSeq(x.m, 1, nint))
                     half == x.m[nint + 1] = 1
                     rest == \E j \in (nint + 2)..53 : x.m[j] = 1
                 IN IF half /\ (rest \/ ip % 2 = 1) THEN ip + 1 ELSE ip

\* progress_percent: a float
progress_percent(s) ==
    IF Len(questions) = 0 THEN Zero
    ELSE float_times_100(float_div(s.current_question_index, Len(questions)))

\* get_status; the session-status route and the respond route report the
\* same ordinal (current_question_index + 1) and total
get_status(ph, s) ==
    [phase |-> ph,
     current_question |-> s.current_question_index + 1,
     total_questions |-> Len(questions),
     progress |-> format_0f(progress_percent(s)),
     responses_collected |-> Cardinality(DOMAIN s.responses)]

\* C37: in every reachable state the question ordinal that the status
\* projection reports is between 1 and the total it reports.
C37_OrdinalWithinTotal ==
    LET st == get_status(phase, session) IN
    1 <= st.current_question /\ st.current_question <= st.total_questions


\* the step is a respond request that found its session
RespondStep ==
    storeRet'.op = "respond" /\ storeRet'.status # 404 /\ now' = now

\* what the claims read of the session j: the phase of its agent, and its
\* state, cursor, answers and retry count
PeerView(ps, ds, j) ==
    [phase |-> ps[j].phase,
     state |-> ps[j].session.state,
     cursor |-> ps[j].session.current_question_index,
     answers |-> ds[ps[j].session.responses],
     retryCount |-> ps[j].session.retry_count]

\* C33: sessions are independent: a call of get_next_utterance,
\* process_response or skip_question on the agent of one session leaves the
\* phase, state, cursor, answers and retry count of every other session of
\* the store as they were.
C33_SessionsIndependent ==
    [][ \A j \in DOMAIN peers :
           j # called'
              => PeerView(peers', dicts', j) = PeerView(peers, dicts, j)
      ]_vars

\* C33 witness: the session called last has had its first question skipped
\* (its cursor is past the question and it has no answer), while another
\* session has the answer to its first question and an empty turn counted
\* after it.
C33_Witness ==
    \E j, k \in DOMAIN peers :
        /\ j # k
        /\ called = k
        /\ PeerView(peers, dicts, k).cursor = 1
        /\ PeerView(peers, dicts, k).answers = EmptyDict
        /\ PeerView(peers, dicts, j).phase = "WAIT_ANSWER"
        /\ PeerView(peers, dicts, j).cursor = 1
        /\ DOMAIN PeerView(peers, dicts, j).answers = {QuestionId(1)}
        /\ PeerView(peers, dicts, j).retryCount = 1


\* C34: the conversation phase of a session persists across respond
\* requests: a respond request with a non-empty text on a stored session
\* (whose start request left the phase WAIT_IDENTITY) is processed as the
\* identity turn or an answer turn, so the agent that processed it ends in
\* WAIT_ANSWER, and never in the constructor's GREETING.
C34_PhasePersistsAcrossRequests ==
    [][ ( /\ RespondStep
          /\ storeRet'.status = 200
          /\ strip(storeRet'.text) # <<>> )
        => /\ storeRet'.phase # "GREETING"
           /\ storeRet'.phase = "WAIT_ANSWER" ]_vars


----------------------------------------------------------------------------
(* One conversation: the agent is started and then given one utterance      *)
(* after the other, each empty or not, until its session has ended.  The    *)
(* database works.                                                          *)

\* the session has ended: it is abandoned or every question has been passed
Terminated == Abandoned \/ cursor = NumQuestions

\* the number of process_response calls within which a session ends
TerminationBound == (NumQuestions + 1) * (max_retries + 1)

\* the agent's fields after a call of the conversation that produced `o`
Converse(o) ==
    /\ phase' = o.phase
    /\ session' = o.session
    /\ db' = o.db
    /\ ret' = o.ret
    /\ UNCHANGED <<questions, pureRun, emptyRun, runAnswers,
                   storeVars, concVars, brainVars, peerVars>>

\* the start: the first get_next_utterance, which returns the greeting
AdvanceStart ==
    /\ advCalls = -1
    /\ Converse(get_next_utterance(phase, session, db, TRUE))
    /\ lastOp' = "get_next_utterance"
    /\ lastInput' = <<>>
    /\ advCalls' = 0

\* one more utterance, while the session has not ended
AdvanceCall ==
    \E transcription \in Transcriptions :
        /\ advCalls >= 0
        /\ advCalls <= TerminationBound
        /\ ~Terminated
        /\ Converse(process_response(phase, session, db, transcription, TRUE))
        /\ lastOp' = "process_response"
        /\ lastInput' = transcription
        /\ advCalls' = advCalls + 1

AdvanceNext == AdvanceStart \/ AdvanceCall

AdvanceSpec == Init /\ [][AdvanceNext]_vars

\* C35: every started session terminates under continued input: whatever
\* utterances (each empty or non-empty) are fed to process_response after
\* the start, a session that is neither abandoned nor at the end of its
\* questions has taken fewer than (len(questions) + 1) * (max_retries + 1)
\* calls, so it has ended after at most that many.
C35_TerminatesWithinBound ==
    (advCalls >= 0 /\ ~Terminated) => advCalls < TerminationBound

\* C35 witness: the longest conversation of the longest survey has ended at
\* the last question: max_retries empty utterances before the identity
\* reply and before every answer but the first.
C35_Witness ==
    /\ NumQuestions = MaxQuestions
    /\ cursor = NumQuestions
    /\ ~Abandoned
    /\ advCalls = (max_retries + 1) * NumQuestions + 1


----------------------------------------------------------------------------
(* agent/survey_brain.py: SurveyBrain, the alternate state machine.  A      *)
(* user text is a sequence of characters; the Urdu letters are written by   *)
(* their names.                                                             *)

\* SurveyPhase members
SurveyPhase ==
    {"GREETING", "IDENTITY_CONFIRM", "INTRO", "ASKING", "WAITING",
     "CLOSING", "DONE"}

\* positive_words of _handle_greeting_response
positive_words ==
    { <<"jeem", "yeh">>,
      <<"heh", "alef", "noon">>,
      <<"y", "e", "s">>,
      <<"jeem", "yeh", " ", "heh", "alef", "noon">>,
      <<"beh", "alef", "lam", "kaf", "lam">> }

\* str.lower() of one character
lower_char(c) ==
    CASE c = "Y" -> "y" [] c = "E" -> "e" [] c = "S" -> "s"
      [] c = "N" -> "n" [] c = "O" -> "o" [] OTHER -> c

\* str.lower()
lower(t) == [i \in 1..Len(t) |-> lower_char(t[i])]

\* `word in text`: word occurs in text as a substring
occurs_in(word, text) ==
    \E i \in 0..(Len(text) - Len(word)) :
        SubSeq(text, i + 1, i + Len(word)) = word

\* the words a user says: affirmative ones, in either case, and a negative
BrainWords ==
    { <<"y", "e", "s">>, <<"Y", "E", "S">>, <<"n", "o">>,
      <<"jeem", "yeh">> }

\* the user texts tried: nothing, whitespace, and the words bare or with
\* whitespace around them
BrainTexts ==
    {pre \o w \o post :
        pre \in Padding, w \in BrainWords \cup {<<>>}, post \in Padding}

\* what a caller can pass to process_input
BrainInputs == BrainTexts \cup {None}

\* a question dict has no "id" key
NoKey == -1

\* the question dicts: with or without an "id" key, with the Urdu text
BrainQuestionAt(i, has_id) ==
    [id |-> IF has_id THEN QuestionId(i) ELSE NoKey,
     text |-> "text", text_ur |-> "text_ur"]

\* the question lists handed to initialize: any length from 0
BrainQuestionLists ==
    UNION {
      { [i \in 1..n |-> BrainQuestionAt(i, has_id[i])] :
            has_id \in [1..n -> BOOLEAN] }
      : n \in 0..MaxQuestions }

\* PROMPTS; two texts joined by f"{a}\n\n{b}" keep the blank lines between
\* them even when b is the empty string
BLANK_LINES == <<Part("BLANK_LINES", 0, "")>>
PROMPT_identity_confirmed(name) == <<Part("identity_confirmed", 0, name)>>
PROMPT_ask_question(num, text) == <<Part("ask_question", num, text)>>
PROMPT_acknowledge == <<Part("acknowledge", 0, "")>>
PROMPT_closing == <<Part("closing", 0, "")>>
PROMPT_not_understood == <<Part("not_understood", 0, "")>>
PROMPT_identity_negative == <<Part("identity_negative", 0, "")>>

\* SurveyBrain.initialize
initialize(qs) == [NewSurveyState EXCEPT !.questions = qs]

\* the state after a call and what the call returned
BrainOutcome(st, r) == [state |-> st, ret |-> r]

_get_current_question_text(st) ==
    IF st.current_index >= Len(st.questions) THEN <<>>
    ELSE PROMPT_ask_question(st.current_index + 1,
                             TextOf(st.questions[st.current_index + 1]))

\* the test of _handle_greeting_response: some positive word occurs in the
\* lowered and stripped text
is_positive(text) ==
    \E word \in positive_words : occurs_in(word, strip(lower(text)))


\* _handle_greeting_response asking again after a reply that is not positive
_handle_greeting_response_asks_again(st, text) ==
    IF is_positive(text)
    THEN LET st1 == [st EXCEPT !.identity_confirmed = TRUE,
                               !.phase = "INTRO"] IN
         BrainOutcome(st1,
                      BrainReturn(PROMPT_identity_confirmed(employee_name) \o
                                  BLANK_LINES \o
                                  _get_current_question_text(st1)))
    ELSE BrainOutcome(st, BrainReturn(PROMPT_not_understood))

_handle_greeting_response(st, text) ==
    IF is_positive(text)
    THEN LET st1 == [st EXCEPT !.identity_confirmed = TRUE,
                               !.phase = "INTRO"] IN
         BrainOutcome(st1,
                      BrainReturn(PROMPT_identity_confirmed(employee_name) \o
                                  BLANK_LINES \o
                                  _get_current_question_text(st1)))
    ELSE BrainOutcome([st EXCEPT !.phase = "DONE"],
                      BrainReturn(PROMPT_identity_negative))

_handle_identity_response(st, text) == _handle_greeting_response(st, text)

\* the text is not read
_handle_intro_response(st, text) ==
    LET st1 == [st EXCEPT !.phase = "WAITING"] IN
    BrainOutcome(st1, BrainReturn(_get_current_question_text(st1)))

_handle_answer(st, text) ==
    \* `self.state.questions[self.state.current_index]` raises IndexError
    IF st.current_index >= Len(st.questions) THEN BrainOutcome(st, BrainRaise)
    ELSE LET current_q == st.questions[st.current_index + 1]
             q_id == IF current_q.id = NoKey THEN st.current_index
                     ELSE current_q.id
             st1 == [st EXCEPT
                        !.responses = (q_id :> strip(text)) @@ st.responses,
                        !.current_index = st.current_index + 1]
         IN
         IF st1.current_index >= Len(st1.questions)
         THEN BrainOutcome([st1 EXCEPT !.phase = "CLOSING"],
                           BrainReturn(PROMPT_closing))
         ELSE LET st2 == [st1 EXCEPT !.phase = "WAITING"] IN
              BrainOutcome(st2,
                           BrainReturn(PROMPT_acknowledge \o BLANK_LINES \o
                                       _get_current_question_text(st2)))

process_input(st, user_text) ==
    \* `user_text[:50]` on None raises TypeError
    IF user_text = None THEN BrainOutcome(st, BrainRaise)
    ELSE CASE st.phase = "GREETING" -> _handle_greeting_response(st, user_text)
           [] st.phase = "IDENTITY_CONFIRM" ->
                _handle_identity_response(st, user_text)
           [] st.phase = "INTRO" -> _handle_intro_response(st, user_text)
           [] st.phase \in {"ASKING", "WAITING"} -> _handle_answer(st, user_text)
           [] st.phase = "CLOSING" ->
                BrainOutcome([st EXCEPT !.phase = "DONE"], BrainReturnNone)
           [] OTHER -> BrainOutcome(st, BrainReturn(PROMPT_not_understood))

\* a SurveyBrain after initialize, before the reply to the greeting
BrainInit ==
    /\ AgentIdle
    /\ sessions = EmptyDict
    /\ dbSessions = {}
    /\ now = 0
    /\ storeRet = NoRequest
    /\ NoThreads
    /\ advCalls = -1
    /\ brain \in {initialize(qs) : qs \in BrainQuestionLists}
    /\ brainOp = "initialize"
    /\ brainIn = <<>>
    /\ brainRet = BrainReturnNone
    /\ NoPeers

ProcessInput ==
    \E user_text \in BrainInputs :
        LET o == process_input(brain, user_text) IN
        /\ brain' = o.state
        /\ brainOp' = "process_input"
        /\ brainIn' = user_text
        /\ brainRet' = o.ret
        /\ UNCHANGED <<agentVars, storeVars, concVars, runVars, peerVars>>

\* initialize called again: the state is replaced, whatever it was
Initialize ==
    \E qs \in BrainQuestionLists :
        /\ brain' = initialize(qs)
        /\ brainOp' = "initialize"
        /\ UNCHANGED <<brainIn, brainRet>>
        /\ UNCHANGED <<agentVars, storeVars, concVars, runVars, peerVars>>

BrainNext == ProcessInput \/ Initialize

BrainSpec == BrainInit /\ [][BrainNext]_vars

BrainTypeOK ==
    /\ brain.phase \in SurveyPhase
    /\ brain.current_index \in 0..Len(brain.questions)
    /\ brain.identity_confirmed \in BOOLEAN


\* the key under which _handle_answer stores the answer to question i
BrainKey(i) ==
    IF brain.questions[i].id = NoKey THEN i - 1 ELSE brain.questions[i].id

\* C38: every user utterance received after a question prompt has been
\* emitted is stored as the response to that question: once the affirmative
\* greeting reply has produced intro + question 1 (phase INTRO), the next
\* process_input call with a non-empty text records the stripped text under
\* question 1 and moves to question 2, or to closing.
C38_AnswerAfterPromptStored ==
    [][ ( /\ brainOp' = "process_input"
          /\ brain.phase = "INTRO"
          /\ brain.identity_confirmed
          /\ Len(brain.questions) >= 1
          /\ brainIn' # None
          /\ strip(brainIn') # <<>> )
        => /\ BrainKey(1) \in DOMAIN brain'.responses
           /\ brain'.responses[BrainKey(1)] = strip(brainIn')
           /\ brain'.current_index = 1
           /\ brain'.phase = IF Len(brain.questions) = 1
                             THEN "CLOSING" ELSE "WAITING" ]_vars

\* C39: a greeting reply in which no affirmative keyword occurs moves the
\* phase directly to DONE with identity_confirmed false and no response
\* recorded, and once the phase is DONE no process_input call changes
\* phase, current_index or responses.
C39_NegativeReplyEndsForGood ==
    [][ /\ ( /\ brainOp' = "process_input"
             /\ brain.phase = "GREETING"
             /\ brainIn' # None
             /\ ~is_positive(brainIn') )
           => /\ brain'.phase = "DONE"
              /\ ~brain'.identity_confirmed
              /\ brain'.responses = EmptyDict
        /\ (brainOp' = "process_input" /\ brain.phase = "DONE")
           => /\ brain'.phase = "DONE"
              /\ brain'.current_index = brain.current_index
              /\ brain'.responses = brain.responses ]_vars

\* C39 witness: the greeting reply was not affirmative, and a call made
\* after it, with an affirmative text, has been turned away.
C39_Witness ==
    /\ brainOp = "process_input"
    /\ brain.phase = "DONE"
    /\ ~brain.identity_confirmed
    /\ brain.responses = EmptyDict
    /\ Len(brain.questions) = MaxQuestions
    /\ brainIn # None
    /\ is_positive(brainIn)
    /\ brainRet = BrainReturn(PROMPT_not_understood)

============================================================================
